---- MODULE Spec2Model ----
(***************************************************************************)
(* Camera acquisition / photo capture state machine of fiber-monster-match *)
(*                                                                         *)
(* The repository holds several revisions of the useCamera hook and of its *)
(* consumer, the CameraCapture screen.  The model carries the revision as  *)
(* state chosen in Init:                                                   *)
(*   hook = "H1"  src/src/hooks/useCamera.tsx   lines  11-298              *)
(*   hook = "H2"  src/src/hooks/useCamera.tsx   lines 308-471              *)
(*   hook = "H3"  src/unnamed/part_005          lines  12-184 (isReady)    *)
(*   hook = "H5"  src/unnamed/part_006          lines 163-622 (timeouts)   *)
(*   comp = "K1"  src/src/components/CameraCapture.tsx lines   33-465      *)
(*   comp = "K2"  src/src/components/CameraCapture.tsx lines  496-976      *)
(*   comp = "K3"  src/src/components/CameraCapture.tsx lines 1003-1205     *)
(*   comp = "API" a consumer that calls the four operations of the hook in *)
(*                any order and renders <video> as the screens do          *)
(*                                                                         *)
(* JavaScript is single threaded: an async function runs from one await to *)
(* the next without interruption, so every action below is one such        *)
(* synchronous segment.  React commits a render between two segments; the  *)
(* <video> element is rendered only while state.isActive (all revisions of *)
(* the screen), which is what videoRef.current depends on.                 *)
(*                                                                         *)
(* Spec is the camera lifecycle, SpecFair adds the fairness of the event   *)
(* loop and of the platform, SpecCapture adds the capture button and its   *)
(* countdown.  SpecFacing is Spec with the facing mode of every stream     *)
(* request followed; SpecUpload is the screens with the capture button and *)
(* the file input, SpecUploadFair is the two screens that have both, with  *)
(* the fairness of their pipeline.                                         *)
(* SpecProgress is the challenge page that receives the photo              *)
(* and keeps the progress record (streaks, totals, points):                *)
(*   page.rev = "P1"  src/src/pages/PhotoChallenge.tsx                     *)
(*   page.rev = "P3"  src/unnamed/part_003                                 *)
(*   page.rev = "P4"  src/unnamed/part_004                                 *)
(***************************************************************************)
EXTENDS Integers, FiniteSets, Sequences, TLC

VARIABLES hook, comp, secure, supported, screen, state, streamRef, heldFacing, live,
          video, calls, event, isCapturing, countdown, capPc, upPc, ops, page

vars == <<hook, comp, secure, supported, screen, state, streamRef, heldFacing, live,
          video, calls, event, isCapturing, countdown, capPc, upPc, ops, page>>

(* ------------------------------ bounds --------------------------------- *)

\* MediaStream objects that exist at the same time
MaxStreams == 2
\* async hook calls in flight at the same time
MaxCalls == 2
\* calls of requestPermission, switchCamera and stopCamera in one run, the
\* stopCamera of the cleanup effects not counted
MaxOps == 3
\* calendar days a run of the challenge page spans
MaxDay == 4
\* the longest streak of the progress records the Light rule is computed for
MaxStreak == 10
\* photos handed to handlePhotoTaken in one run of the challenge page
MaxPhotos == 3
\* largest target_days of a challenge
MaxTarget == 3

(* ----------------------------- vocabulary ------------------------------ *)

Hooks == {"H1", "H2", "H3", "H5"}
Comps == {"K1", "K2", "K3", "API"}
Slots == 1..MaxCalls
NoError == "null"

\* names of the DOMException a getUserMedia request is rejected with
GumErrorNames == {"NotFoundError", "NotAllowedError", "NotReadableError",
                  "OverconstrainedError"}

PlatformError(n) == [name |-> n, message |-> "platform"]
ThrownError(m) == [name |-> "Error", message |-> m]

MsgHttps == "Camera requires HTTPS. Please use HTTPS or localhost."
MsgNoMediaDevices == "Media devices not supported in this browser"
MsgNoGetUserMedia == "Camera access not supported in this browser"
MsgNotSupportedH1 == "Camera not supported on this device"
MsgLoadFailed == "Failed to load video"
MsgPlayFailed == "Video failed to start playing"
MsgTimeout == "Timeout waiting for video to load"
MsgSwitchFailed == "Failed to switch camera"

\* String.prototype.includes on the messages an error can carry here
IncludesHttps(m) == m \in {MsgHttps}
IncludesNotSupported(m) == m \in {MsgNoMediaDevices, MsgNoGetUserMedia, MsgNotSupportedH1}

IsOverconstrained(e) == e.name \in {"OverconstrainedError", "ConstraintNotSatisfiedError"}

\* the message the catch block of requestPermission derives from the error
ErrorMessage(h, e) ==
  CASE h = "H1" ->
         IF e.name \in {"NotFoundError", "DevicesNotFoundError"}
           THEN "No camera found on this device."
         ELSE IF e.name \in {"NotAllowedError", "PermissionDeniedError"}
           THEN "Camera permission denied. Please allow camera access and refresh the page."
         ELSE IF e.name = "NotSupportedError"
           THEN "Camera not supported on this device or browser."
         ELSE IF e.name \in {"NotReadableError", "TrackStartError"}
           THEN "Camera is being used by another application."
         ELSE IF IsOverconstrained(e)
           THEN "Camera constraints not satisfied. Trying with basic settings..."
         ELSE "Camera access failed. Please check your permissions."
    [] h = "H2" ->
         IF e.name = "NotFoundError"
           THEN "No camera found on this device."
         ELSE IF e.name = "NotAllowedError"
           THEN "Camera permission denied. Please allow camera access in your browser settings."
         ELSE IF e.name = "NotSupportedError"
           THEN "Camera not supported on this device or browser."
         ELSE "Camera access denied. Please allow camera permission and try again."
    [] h = "H5" ->
         IF IncludesHttps(e.message)
           THEN "Camera requires HTTPS. Please access this site over HTTPS or use localhost for development."
         ELSE IF IncludesNotSupported(e.message)
           THEN "Camera not supported in this browser. Try Chrome, Firefox, or Safari."
         ELSE IF e.name \in {"NotFoundError", "DevicesNotFoundError"}
           THEN "No camera found. Please connect a camera and try again."
         ELSE IF e.name \in {"NotAllowedError", "PermissionDeniedError"}
           THEN "Camera permission denied. Please allow camera access and refresh the page."
         ELSE IF e.name = "NotSupportedError"
           THEN "Camera not supported on this device or browser."
         ELSE IF e.name \in {"NotReadableError", "TrackStartError"}
           THEN "Camera is being used by another application. Close other apps and try again."
         ELSE IF IsOverconstrained(e)
           THEN "Camera could not be started with any settings. Please check your camera and permissions."
         ELSE "Camera access failed. Please check your permissions."
    [] OTHER -> NoError

(* --------------------------- data structures --------------------------- *)

\* useState<CameraState>: the initial value
InitialState ==
  [isActive |-> FALSE, isLoading |-> FALSE, error |-> NoError,
   hasPermission |-> FALSE, facingMode |-> "user", isReady |-> FALSE]

\* the <video> element behind videoRef.current.  stage: 0 no data, 1 metadata
\* only, 2 a current frame (still paused), 3 playing at currentTime 0,
\* 4 playing with currentTime > 0.  dims: videoWidth and videoHeight non-zero.
NoVideo == [mounted |-> FALSE, srcObject |-> 0, stage |-> 0, dims |-> FALSE]
FreshVideo == [mounted |-> TRUE, srcObject |-> 0, stage |-> 0, dims |-> FALSE]

\* only H5 reads paused and currentTime, so playing is tracked for H5 alone
MaxStage == IF hook = "H5" THEN 4 ELSE 2
ReadyState(v) == IF v.stage >= 2 THEN 2 ELSE v.stage
Paused(v) == v.stage < 3
CurrentTimeZero(v) == v.stage < 4

\* one slot per async call of the hook in flight
FreeCall == [kind |-> "free", pc |-> "-", detached |-> FALSE, dsrc |-> 0,
             handler |-> FALSE, settled |-> FALSE, reqs |-> 0,
             facing |-> "none"]

\* what the last step did (an observation, read by no operation): name of the
\* step, the getUserMedia requests the call has issued so far, the cause of a
\* failure and, for a capturePhoto call, its result and what it saw
\* and the notification shown
NoToast == [title |-> "none", description |-> "none"]
NoEvent == [name |-> "none", reqs |-> 0, cause |-> "none", result |-> "none",
            hadFrame |-> FALSE, wasReady |-> FALSE, wasError |-> FALSE,
            readVideo |-> FALSE, toast |-> NoToast]
Ev(n, r, c) == [NoEvent EXCEPT !.name = n, !.reqs = r, !.cause = c]

\* the mutable world of the hook, threaded through the operators below
World == [state |-> state, streamRef |-> streamRef, heldFacing |-> heldFacing,
          live |-> live,
          video |-> video, calls |-> calls, event |-> event]

FreeSlots(w) == {c \in Slots : w.calls[c].kind = "free"}
LowestFree(w) == CHOOSE c \in FreeSlots(w) : \A d \in FreeSlots(w) : c <= d

HasFacing == hook \in {"H1", "H3", "H5"}
\* the facing mode a request asks for is a history value (read by no
\* operation), followed only in the behaviours that start with heldFacing
\* other than "off"
Recorded(w, f) == IF w.heldFacing = "off" THEN "none" ELSE f
Flip(f) == IF f = "user" THEN "environment" ELSE "user"

\* pcs at which a call holds listeners on a <video> element
WaitPcs == {"wait", "play", "settle", "wait2", "swait", "splay", "ssettle"}

\* srcObject of the element a waiting call attached its listeners to
ElSrc(w, c) == IF w.calls[c].detached THEN w.calls[c].dsrc ELSE w.video.srcObject
ElLive(w, c) == ElSrc(w, c) # 0 /\ ElSrc(w, c) \in w.live
\* the element has reached the stage at which the awaited event fires
ElReached(w, c, k) ==
  ElLive(w, c) /\ (w.calls[c].detached \/ w.video.stage >= k)

(* ------------------------- the hook: helpers --------------------------- *)

SetEvent(w, e) == [w EXCEPT !.event = e]
EndCall(w, c) == [w EXCEPT !.calls[c] = FreeCall]

\* streamRef.current.getTracks().forEach(track => track.stop())
StopTracks(w) == [w EXCEPT !.live = @ \ {w.streamRef}]

\* variant of the stop that leaves the stopped stream in streamRef
StopExisting_KeepsRef(w) ==
  IF w.streamRef # 0
    THEN [w EXCEPT !.live = @ \ {w.streamRef}]
    ELSE w

\* "Stop any existing stream first" of requestPermission
StopExisting(w) ==
  IF w.streamRef # 0
    THEN [w EXCEPT !.live = @ \ {w.streamRef}, !.streamRef = 0]
    ELSE w

\* the state update of requestPermission on success
SuccessState(st) ==
  IF hook = "H2"
    THEN [st EXCEPT !.isActive = TRUE, !.isLoading = FALSE, !.hasPermission = TRUE]
    ELSE [st EXCEPT !.isActive = TRUE, !.isLoading = FALSE, !.hasPermission = TRUE,
                    !.error = NoError]

\* the state update at the end of the catch block of requestPermission
FailState(st, msg) ==
  [st EXCEPT !.isActive = FALSE, !.isLoading = FALSE, !.hasPermission = FALSE,
             !.error = msg]

\* the first state update of requestPermission
LoadingState(st) ==
  IF hook = "H3"
    THEN [st EXCEPT !.isLoading = TRUE, !.error = NoError, !.isReady = FALSE]
    ELSE [st EXCEPT !.isLoading = TRUE, !.error = NoError]

\* videoRef.current.srcObject = stream, then the listeners of the readiness
\* wait are installed by call c, which parks at pc.  H2 and H3 assign the
\* on-properties of the element, which replaces the handler of an earlier call.
Attach(w, c, s, pc) ==
  [w EXCEPT
     !.video = [mounted |-> TRUE, srcObject |-> s, stage |-> 0, dims |-> FALSE],
     !.calls = [d \in Slots |->
        IF d = c
          THEN [@[d] EXCEPT !.pc = pc, !.detached = FALSE, !.dsrc = 0,
                            !.handler = TRUE, !.settled = FALSE]
        ELSE IF hook \in {"H2", "H3"} /\ @[d].pc \in WaitPcs /\ ~@[d].detached
          THEN [@[d] EXCEPT !.handler = FALSE]
        ELSE @[d]]]

\* videoRef.current.srcObject = stream without a wait
SetSrc(w, s) ==
  IF w.video.mounted
    THEN [w EXCEPT !.video = [mounted |-> TRUE, srcObject |-> s, stage |-> 0,
                               dims |-> FALSE]]
    ELSE w

\* a MediaStream exists while its tracks are live or something refers to it:
\* streamRef, the srcObject of the mounted element or of an unmounted element
\* a waiting call still listens to
StreamsInUse(w) ==
  (w.live \cup {w.streamRef, w.video.srcObject}
          \cup {w.calls[c].dsrc : c \in Slots}) \ {0}
FreeStreams(w) == (1..MaxStreams) \ StreamsInUse(w)

\* the platform hands out a new stream with live tracks, which the
\* continuation of the await stores in streamRef
NewStream(w) == CHOOSE s \in FreeStreams(w) : \A t \in FreeStreams(w) : s <= t
Deliver(w) ==
  [w EXCEPT !.live = @ \cup {NewStream(w)}, !.streamRef = NewStream(w)]
\* the same for call c, with the facing mode its request asked for
Hold(w, c, f) ==
  [Deliver(w) EXCEPT !.heldFacing = f, !.calls[c].facing = "none"]

(* ---------------------------- stopCamera ------------------------------- *)

\* variant of stopCamera that forgets to reset isReady
stopCamera_KeepsReady(w) ==
  LET w1 == StopExisting(w)
      w2 == IF w1.video.mounted
              THEN [w1 EXCEPT !.video.srcObject = 0, !.video.stage = 0,
                              !.video.dims = FALSE]
              ELSE w1
  IN  [w2 EXCEPT !.state =
         CASE hook = "H2" -> [@ EXCEPT !.isActive = FALSE]
           [] OTHER       -> [@ EXCEPT !.isActive = FALSE, !.error = NoError]]

stopCamera(w) ==
  LET w1 == StopExisting(w)
      w2 == IF w1.video.mounted
              THEN [w1 EXCEPT !.video.srcObject = 0, !.video.stage = 0,
                              !.video.dims = FALSE]
              ELSE w1
  IN  [w2 EXCEPT !.state =
         CASE hook = "H2" -> [@ EXCEPT !.isActive = FALSE]
           [] hook = "H3" -> [@ EXCEPT !.isActive = FALSE, !.error = NoError,
                                       !.isReady = FALSE]
           [] OTHER       -> [@ EXCEPT !.isActive = FALSE, !.error = NoError]]

(* -------------------------- requestPermission -------------------------- *)

\* the call ends in the success state update
RPSucceed(w, c) ==
  SetEvent(EndCall([w EXCEPT !.state = SuccessState(@)], c),
           Ev("rp_active", w.calls[c].reqs, "none"))

\* the call ends in the failure state update with message msg
RPFail(w, c, msg, cause) ==
  SetEvent(EndCall([w EXCEPT !.state = FailState(@, msg)], c),
           Ev("rp_failed", w.calls[c].reqs, cause))

\* variant of the catch block that retries after any rejection of the request
RPCatch_RetriesAlways(w, c, e, cause) ==
  CASE hook = "H3" ->
         SetEvent(EndCall(w, c), Ev("rp_failed", w.calls[c].reqs, cause))
    [] hook = "H2" -> RPFail(w, c, ErrorMessage("H2", e), cause)
    [] OTHER ->
         IF e.name # "Error"
           THEN SetEvent([w EXCEPT !.calls[c].pc = "gum2", !.calls[c].reqs = @ + 1],
                         Ev("rp_fallback", w.calls[c].reqs + 1, cause))
           ELSE RPFail(w, c, ErrorMessage(hook, e), cause)

\* the catch block of requestPermission, entered with error e
RPCatch(w, c, e, cause) ==
  CASE hook = "H3" ->
         \* part_005: the catch block is empty
         SetEvent(EndCall(w, c), Ev("rp_failed", w.calls[c].reqs, cause))
    [] hook = "H2" -> RPFail(w, c, ErrorMessage("H2", e), cause)
    [] OTHER ->
         IF IsOverconstrained(e)
           THEN \* second getUserMedia with basic constraints
                SetEvent([w EXCEPT !.calls[c].pc = "gum2", !.calls[c].reqs = @ + 1],
                         Ev("rp_fallback", w.calls[c].reqs + 1, cause))
           ELSE RPFail(w, c, ErrorMessage(hook, e), cause)

\* the fallback request failed, or (H5) its readiness wait did
RPFallbackFailed(w, c, cause) ==
  RPFail(w, c, ErrorMessage(hook, PlatformError("OverconstrainedError")), cause)

\* issue navigator.mediaDevices.getUserMedia(constraints)
RPRequest(w, c) ==
  SetEvent([w EXCEPT !.calls[c].pc = "gum", !.calls[c].reqs = @ + 1],
           NoEvent)

\* constraints.video.facingMode of requestPermission: state.facingMode as
\* the callback closed over it
RequestedFacing(w) == Recorded(w, IF HasFacing THEN w.state.facingMode ELSE "none")

\* requestPermission up to its first await, run as call c
RPStart(w, c) ==
  LET w0 == [w EXCEPT !.state = LoadingState(@),
                      !.calls[c] = [FreeCall EXCEPT !.kind = "req", !.pc = "start",
                                                    !.facing = RequestedFacing(w)]]
  IN CASE hook = "H1" ->
            IF ~supported
              THEN RPCatch(w0, c, ThrownError(MsgNotSupportedH1), "unsupported")
              ELSE RPRequest(StopExisting(w0), c)
       [] hook = "H2" ->
            IF ~supported
              THEN RPCatch(w0, c, ThrownError(MsgNotSupportedH1), "unsupported")
              ELSE RPRequest(w0, c)
       [] hook = "H3" ->
            IF ~secure
              THEN RPCatch(w0, c, ThrownError(MsgHttps), "insecure")
            ELSE IF ~supported
              THEN RPCatch(w0, c, ThrownError(MsgNoGetUserMedia), "unsupported")
            ELSE RPRequest(StopExisting(w0), c)
       [] OTHER ->
            IF ~secure
              THEN RPCatch(w0, c, ThrownError(MsgHttps), "insecure")
            ELSE IF ~supported
              THEN RPCatch(w0, c, ThrownError(MsgNoMediaDevices), "unsupported")
            ELSE \* await navigator.mediaDevices.enumerateDevices()
                 SetEvent([w0 EXCEPT !.calls[c].pc = "enum"], NoEvent)

\* H5: enumerateDevices settled (its outcome is swallowed by the inner catch)
RPAfterEnum(w, c) == RPRequest(StopExisting(w), c)

\* the first getUserMedia resolved with a stream
RPGotStream(w, c) ==
  LET w1 == Hold(w, c, w.calls[c].facing)
  IN IF w1.video.mounted
       THEN SetEvent(Attach(w1, c, w1.streamRef, "wait"),
                     NoEvent)
       ELSE RPSucceed(w1, c)

\* the fallback getUserMedia resolved with a stream
RPGotBasicStream(w, c) ==
  LET w1 == Hold(w, c, IF hook = "H5" THEN "any" ELSE w.calls[c].facing)
  IN IF hook = "H5" /\ w1.video.mounted
       THEN SetEvent(Attach(w1, c, w1.streamRef, "wait2"),
                     NoEvent)
       ELSE RPSucceed(SetSrc(w1, w1.streamRef), c)

(* ----------------------------- switchCamera ---------------------------- *)

SwitchSucceed(w, c) ==
  SetEvent(EndCall([w EXCEPT !.state =
                      IF hook = "H2" THEN [@ EXCEPT !.isActive = TRUE]
                                     ELSE [@ EXCEPT !.isLoading = FALSE]], c),
           Ev("sw_done", w.calls[c].reqs, "none"))

SwitchCatch(w, c, cause) ==
  SetEvent(EndCall([w EXCEPT !.state =
                      IF hook = "H2" THEN [@ EXCEPT !.error = MsgSwitchFailed]
                                     ELSE [@ EXCEPT !.isLoading = FALSE,
                                                    !.error = MsgSwitchFailed]], c),
           Ev("sw_failed", w.calls[c].reqs, cause))

\* switchCamera up to its first await, run as call c
SwitchStart(w, c) ==
  CASE hook = "H3" ->
         \* part_005: only the state update is left of the function
         SetEvent([w EXCEPT !.state = [@ EXCEPT !.isReady = FALSE, !.isLoading = TRUE]],
                  Ev("sw_stub", 0, "none"))
    [] hook = "H2" ->
         IF w.streamRef = 0
           THEN SetEvent(w, Ev("sw_noop", 0, "none"))
           ELSE LET w1 == stopCamera(w)
                IN SetEvent([w1 EXCEPT !.calls[c] =
                               [FreeCall EXCEPT !.kind = "switch", !.pc = "sgum",
                                                !.reqs = 1]],
                            NoEvent)
    [] OTHER ->
         IF ~supported \/ w.streamRef = 0
           THEN SetEvent(w, Ev("sw_noop", 0, "none"))
           ELSE LET nf == Flip(w.state.facingMode)
                    w1 == [w EXCEPT !.state = [@ EXCEPT !.facingMode = nf,
                                                        !.isLoading = TRUE]]
                IN SetEvent([StopTracks(w1) EXCEPT !.calls[c] =
                               [FreeCall EXCEPT !.kind = "switch", !.pc = "sgum",
                                                !.reqs = 1, !.facing = Recorded(w, nf)]],
                            NoEvent)

\* the getUserMedia of switchCamera resolved with a stream
SwitchGotStream(w, c) ==
  LET w1 == Hold(w, c, w.calls[c].facing)
  IN IF hook = "H5" /\ w1.video.mounted
       THEN SetEvent(Attach(w1, c, w1.streamRef, "swait"),
                     NoEvent)
       ELSE SwitchSucceed(SetSrc(w1, w1.streamRef), c)

(* ----------------------------- capturePhoto ---------------------------- *)

MsgCameraUnavailable == "Camera not available"

\* the outcome of canvas.toBlob: blobOk says the encoder produced bytes
capturePhoto(w, blobOk) ==
  LET v == w.video
      ended == v.srcObject # 0 /\ v.srcObject \notin w.live
      blob == IF blobOk THEN "ok" ELSE "Failed to create photo - blob is empty"
  IN CASE hook = "H1" ->
            IF ~v.mounted \/ w.streamRef = 0 THEN MsgCameraUnavailable
            ELSE IF ReadyState(v) < 2 THEN "Video not ready for capture"
            ELSE IF ~v.dims THEN "Video has no dimensions"
            ELSE blob
       [] hook = "H2" ->
            IF ~v.mounted THEN MsgCameraUnavailable
            \* a canvas of size 0 encodes to a null blob
            ELSE IF ~v.dims \/ ~blobOk THEN "Failed to capture photo"
            ELSE "ok"
       [] hook = "H3" ->
            IF ~v.mounted \/ w.streamRef = 0 \/ ~w.state.isReady
              THEN "Camera not ready for capture"
            ELSE IF ~v.dims
              THEN "Video has no dimensions - camera may not be working properly"
            ELSE blob
       [] OTHER ->
            IF ~v.mounted \/ w.streamRef = 0 THEN MsgCameraUnavailable
            ELSE IF ReadyState(v) < 2 THEN "Video not ready - still loading metadata"
            ELSE IF ~v.dims THEN "Video has no dimensions - camera may not be working"
            ELSE IF Paused(v) \/ ended
              THEN "Video is not playing - camera stream may have stopped"
            ELSE IF CurrentTimeZero(v)
              THEN "Video has no time data - stream may not be active"
            ELSE blob

\* the first check of capturePhoto passed, the <video> element is read next
CameraHeld(w) ==
  CASE hook = "H2" -> w.video.mounted
    [] hook = "H3" -> w.video.mounted /\ w.streamRef # 0 /\ w.state.isReady
    [] OTHER       -> w.video.mounted /\ w.streamRef # 0

\* the messages capturePhoto rejects with
CaptureErrors ==
  CASE hook = "H1" -> {MsgCameraUnavailable, "Video not ready for capture",
                       "Video has no dimensions",
                       "Failed to create photo - blob is empty"}
    [] hook = "H2" -> {MsgCameraUnavailable, "Failed to capture photo"}
    [] hook = "H3" -> {"Camera not ready for capture",
                       "Video has no dimensions - camera may not be working properly",
                       "Failed to create photo - blob is empty"}
    [] OTHER       -> {MsgCameraUnavailable,
                       "Video not ready - still loading metadata",
                       "Video has no dimensions - camera may not be working",
                       "Video is not playing - camera stream may have stopped",
                       "Video has no time data - stream may not be active",
                       "Failed to create photo - blob is empty"}

\* what onPhotoTaken rejects with: an Error of the storage client, or the
\* plain error object of a query
SaveErrors == {[isError |-> TRUE, message |-> "storage"],
               [isError |-> FALSE, message |-> "query"]}

\* error.message.includes(...) of the catch block of handleCapture (K2)
IncludesNotReady(m) ==
  m \in {"Video not ready for capture", "Camera not ready for capture",
         "Video not ready - still loading metadata"}
IncludesNotPlaying(m) ==
  m \in {"Video is not playing - camera stream may have stopped"}
IncludesNoDimensions(m) ==
  m \in {"Video has no dimensions",
         "Video has no dimensions - camera may not be working properly",
         "Video has no dimensions - camera may not be working"}
IncludesEmpty(m) == m \in {"Failed to create photo - blob is empty"}

MsgCaptureFailed == "Failed to capture photo. Please try again."

\* the toast of the catch block of handleCapture for the value e it caught
CaptureFailedToast(e) ==
  [title |-> "Capture Failed",
   description |->
     CASE comp = "K1" -> IF e.isError THEN e.message ELSE MsgCaptureFailed
       [] comp = "K2" ->
            IF ~e.isError THEN MsgCaptureFailed
            ELSE IF IncludesNotReady(e.message)
              THEN "Camera is still loading. Please wait a moment and try again."
            ELSE IF IncludesNotPlaying(e.message)
              THEN "Camera video paused. Please restart the camera."
            ELSE IF IncludesNoDimensions(e.message)
              THEN "Camera isn't working properly. Please restart or try upload."
            ELSE IF IncludesEmpty(e.message)
              THEN "Camera isn't producing video. Please check permissions."
            ELSE MsgCaptureFailed
       [] OTHER -> MsgCaptureFailed]

\* what one capturePhoto call saw and returned
CaptureRecord(w, blobOk) ==
  [NoEvent EXCEPT
     !.name = "capture",
     !.result = capturePhoto(w, blobOk),
     !.hadFrame = w.video.mounted /\ w.video.stage >= 2 /\ w.video.dims,
     !.wasReady = w.state.isReady,
     !.wasError = w.state.error # NoError,
     !.readVideo = CameraHeld(w),
     !.toast = IF comp = "API" \/ capturePhoto(w, blobOk) = "ok" THEN NoToast
               ELSE CaptureFailedToast([isError |-> TRUE,
                                        message |-> capturePhoto(w, blobOk)])]

(* ------------------------------- render -------------------------------- *)

\* the screen renders <video ref={videoRef}> only in its isActive branch
VideoRendered(w, scr) == scr = "camera" /\ w.state.isActive

\* H3 leaves oncanplay installed after the wait was rejected; such a handler
\* can fire only while it is installed and its element plays a live stream
Lingering(w, c) ==
  /\ w.calls[c].settled
  /\ w.calls[c].pc = "wait"
  /\ (~w.calls[c].handler \/ ~ElLive(w, c))

\* React commits the render that follows a synchronous segment
Commit(w, scr) ==
  LET w1 ==
        IF VideoRendered(w, scr) = w.video.mounted THEN w
        ELSE IF VideoRendered(w, scr) THEN [w EXCEPT !.video = FreshVideo]
        ELSE [w EXCEPT
                !.video = NoVideo,
                !.calls = [c \in Slots |->
                   IF @[c].pc \in WaitPcs /\ ~@[c].detached
                     THEN [@[c] EXCEPT !.detached = TRUE, !.dsrc = w.video.srcObject]
                     ELSE @[c]]]
  IN [w1 EXCEPT !.calls = [c \in Slots |->
                   IF Lingering(w1, c) THEN FreeCall ELSE @[c]]]

\* the calls in flight form a multiset: the slots are kept in one fixed order
PcRank(pc) ==
  CASE pc = "-" -> 0       [] pc = "start" -> 1   [] pc = "enum" -> 2
    [] pc = "gum" -> 3     [] pc = "wait" -> 4    [] pc = "play" -> 5
    [] pc = "ready" -> 6   [] pc = "settle" -> 7  [] pc = "gum2" -> 8
    [] pc = "wait2" -> 9   [] pc = "sgum" -> 10   [] pc = "swait" -> 11
    [] pc = "splay" -> 12  [] OTHER -> 13
Bit(b) == IF b THEN 1 ELSE 0
CallKey(k) ==
  ((((PcRank(k.pc) * 2 + Bit(k.detached)) * 2 + Bit(k.handler)) * 2
      + Bit(k.settled)) * 3 + k.reqs) * (MaxStreams + 1) + k.dsrc
SortCalls(w) ==
  [w EXCEPT !.calls = SortSeq(@, LAMBDA a, b : CallKey(a) > CallKey(b))]

\* React drops the state updates of a component that was unmounted
Kept(w) == IF screen = "closed" THEN [w EXCEPT !.state = state] ELSE w

Apply(w, scr) ==
  \E f \in {SortCalls(Commit(Kept(w), scr))} :
     /\ state' = f.state
     /\ streamRef' = f.streamRef
     /\ heldFacing' = IF heldFacing = "off" THEN "off"
                      ELSE IF f.streamRef = 0 THEN "none" ELSE f.heldFacing
     /\ live' = f.live
     /\ video' = f.video
     /\ calls' = f.calls
     /\ event' = f.event
     /\ screen' = scr

Fixed == <<hook, comp, secure, supported, page>>
Env == <<Fixed, ops>>
CaptureVars == <<isCapturing, countdown, capPc, upPc>>


\* the continuation of a resolved promise runs before any other task: a task
\* starts only when no call is parked at its continuation
NoMicrotask == \A c \in Slots : calls[c].pc # "ready"

(* ------------------------------- Init ---------------------------------- *)

(* -------------------------- the challenge page ------------------------- *)

\* the revisions of the PhotoChallenge page:
\*   "P1" src/src/pages/PhotoChallenge.tsx (update or insert of the progress)
\*   "P3" src/unnamed/part_003             (upsert, awards Light)
\*   "P4" src/unnamed/part_004             (upsert)
Pages == {"P1", "P3", "P4"}

\* a row of user_challenge_progress for the selected challenge, and its
\* absence.  last_photo_date is the number of the calendar day, 0 for null.
NoProgress ==
  [exists |-> FALSE, current_streak |-> 0, longest_streak |-> 0,
   total_photos |-> 0, points_earned |-> 0, last_photo_date |-> 0]
\* the row created together with a challenge
ZeroProgress == [NoProgress EXCEPT !.exists = TRUE]
\* a row of a challenge that is under way, its best streak behind it: the
\* last photo was taken on day 1
StoredProgress ==
  [exists |-> TRUE, current_streak |-> 1, longest_streak |-> 3,
   total_photos |-> 4, points_earned |-> 40, last_photo_date |-> 1]

\* what the last step of handlePhotoTaken wrote (an observation, read by no
\* operation): the stored row before the write, the row written, the day
NoWrite == [done |-> FALSE, path |-> "none", before |-> NoProgress,
            row |-> NoProgress, day |-> 0]

\* the awaited step of handlePhotoTaken that has just settled (an
\* observation): its name, whether it succeeded, and whether handlePhotoTaken
\* threw or returned because of it
NoStep == [name |-> "none", ok |-> FALSE, thrown |-> FALSE, returned |-> FALSE]

\* the page and its tables: the stored progress row, the number of blobs in
\* the storage bucket and of challenge_entries rows, the progress and the loading flag of the page
\* state, whether a fetchChallenges is in flight, the position of
\* handlePhotoTaken and the progress its closure holds, the number of photos
\* handed to it and of its runs that returned, the calendar day, the
\* target_days of the challenge, the dayNumber the camera screen hands to
\* handlePhotoTaken, and the day_number of the newest challenge_entries row
\* (the rows of a stored challenge are numbered 1..total_photos)
InitialPage(rev, row) ==
  [rev |-> rev, today |-> 1, table |-> row, uploads |-> 0, entries |-> 0,
   target_days |-> MaxTarget, step |-> NoStep,
   progress |-> NoProgress, challenges |-> FALSE, fetching |-> TRUE,
   showCamera |-> FALSE, pc |-> "idle", currentProgress |-> NoProgress,
   photos |-> 0, accepted |-> 0, write |-> NoWrite,
   dayNumber |-> 0, lastDay |-> row.total_photos]

InitWith(hf) ==
  /\ hook \in Hooks
  /\ comp \in Comps
  /\ secure \in BOOLEAN
  /\ supported \in BOOLEAN
  /\ screen = IF comp = "API" THEN "camera" ELSE "new"
  /\ state = InitialState
  /\ streamRef = 0
  /\ heldFacing = hf
  /\ live = {}
  /\ video = NoVideo
  /\ calls = [c \in Slots |-> FreeCall]
  /\ event = NoEvent
  /\ isCapturing = FALSE
  /\ countdown = 0
  /\ capPc = "idle"
  /\ upPc = "idle"
  /\ ops = 0
  /\ page = InitialPage("P1", NoProgress)

\* the facing modes of the requests are not followed
Init == InitWith("off")
\* and here they are
InitFacing == InitWith("none")

\* a call of a hook operation counts against the budget of the run
Called == ops < MaxOps /\ ops' = ops + 1

(* ------------------------ the screen's handlers ------------------------ *)

\* first render and mount effects of the screen
Mount ==
  /\ NoMicrotask
  /\ screen = "new"
  /\ IF comp = "K2"
       THEN \* the mount effect starts the camera
            Apply(RPStart(World, LowestFree(World)), "camera") /\ Called
       ELSE \* the pose guide is shown first
            Apply(SetEvent(World, NoEvent), "guide") /\ UNCHANGED ops
  /\ UNCHANGED <<Fixed, CaptureVars>>

\* PoseGuide onNext
handleStartCamera ==
  /\ NoMicrotask
  /\ screen = "guide"
  /\ comp \in {"K1", "K3"}
  /\ FreeSlots(World) # {}
  /\ Apply(RPStart(World, LowestFree(World)), "camera")
  /\ Called
  /\ UNCHANGED <<Fixed, CaptureVars>>

\* K3: the third button of the controls, shown while isActive, brings the
\* pose guide back: setShowGuide(true).  The camera is left as it is.
showGuide ==
  /\ NoMicrotask
  /\ screen = "camera"
  /\ comp = "K3"
  /\ state.isActive
  /\ ~isCapturing
  /\ Apply(SetEvent(World, NoEvent), "guide")
  /\ UNCHANGED <<Env, CaptureVars>>

\* the buttons that call requestPermission: "Try Again" of the error view and
\* "Start Camera" of the idle view; the bare hook is called at any time
RetryOffered ==
  /\ ~state.isActive
  /\ ~state.isLoading
  /\ (comp = "K3" => state.error # NoError)

handleRetryCamera ==
  /\ NoMicrotask
  /\ screen = "camera"
  /\ comp = "API" \/ RetryOffered
  /\ FreeSlots(World) # {}
  /\ Apply(RPStart(World, LowestFree(World)), "camera")
  /\ Called
  /\ UNCHANGED <<Fixed, CaptureVars>>

\* variant of the button that stays enabled while isCapturing
UploadOffered_WhileCapturing ==
  /\ screen = "camera"
  /\ comp \in {"K1", "K2"}
  /\ ~state.isActive
  /\ ~state.isLoading

\* the "Upload Photo" button: in the error view and in the idle view of the
\* first two revisions of the screen, disabled while isCapturing; the third
\* revision has no file input
UploadOffered ==
  /\ screen = "camera"
  /\ comp \in {"K1", "K2"}
  /\ ~state.isActive
  /\ ~state.isLoading
  /\ ~isCapturing

\* the camera switch button of the header
SwitchOffered ==
  /\ state.isActive
  /\ IF comp = "K3" THEN ~isCapturing ELSE ~state.isLoading

\* K2: useEffect(..., [requestPermission, stopCamera]) runs its cleanup and
\* its body again when requestPermission is re-created, that is when
\* state.facingMode changed (the dependency of the useCallback)
EffectRerun(w0, w) ==
  IF comp = "K2" /\ HasFacing /\ w.state.facingMode # w0.state.facingMode
    THEN RPStart(stopCamera(w), LowestFree(w))
    ELSE w

switchCameraClick ==
  /\ NoMicrotask
  /\ screen = "camera"
  /\ comp = "API" \/ SwitchOffered
  /\ FreeSlots(World) # {}
  /\ LET w == SwitchStart(World, LowestFree(World))
     IN /\ (comp = "K2" /\ HasFacing /\ w.state.facingMode # state.facingMode)
             => FreeSlots(w) # {}
        /\ Apply(EffectRerun(World, w), "camera")
  /\ Called
  /\ UNCHANGED <<Fixed, CaptureVars>>

\* stopCamera called on the bare hook
stopCameraCall ==
  /\ NoMicrotask
  /\ screen = "camera"
  /\ comp = "API"
  /\ Apply(SetEvent(stopCamera(World), Ev("stop", 0, "none")), "camera")
  /\ Called
  /\ UNCHANGED <<Fixed, CaptureVars>>

\* the screen unmounts: the cleanup effect of the screen and the one of the
\* hook both call stopCamera
Unmounted(w) == SetEvent(stopCamera(stopCamera(w)), Ev("close", 0, "none"))

Close ==
  /\ NoMicrotask
  /\ screen \in {"guide", "camera"}
  /\ Apply(Unmounted(World), "closed")
  /\ UNCHANGED <<Env, CaptureVars>>

(* ------------------- the platform answers a request -------------------- *)

Pending(c, pcs) == calls[c].kind # "free" /\ calls[c].pc \in pcs

\* H5: enumerateDevices settled
EnumDone(c) ==
  /\ NoMicrotask
  /\ Pending(c, {"enum"})
  /\ Apply(RPAfterEnum(World, c), screen)
  /\ UNCHANGED <<Env, CaptureVars>>

\* getUserMedia resolves with a stream
GumResolved(c) ==
  /\ NoMicrotask
  /\ Pending(c, {"gum", "gum2", "sgum"})
  /\ secure
  /\ FreeStreams(World) # {}
  /\ Apply(CASE calls[c].pc = "gum"  -> RPGotStream(World, c)
             [] calls[c].pc = "gum2" -> RPGotBasicStream(World, c)
             [] OTHER                -> SwitchGotStream(World, c),
           screen)
  /\ UNCHANGED <<Env, CaptureVars>>

\* getUserMedia rejects with a DOMException named n
GumRejected(c, n) ==
  /\ NoMicrotask
  /\ Pending(c, {"gum", "gum2", "sgum"})
  /\ Apply(CASE calls[c].pc = "gum"  -> RPCatch(World, c, PlatformError(n), n)
             [] calls[c].pc = "gum2" -> RPFallbackFailed(World, c, n)
             [] OTHER                -> SwitchCatch(World, c, n),
           screen)
  /\ UNCHANGED <<Env, CaptureVars>>

(* ------------------ the <video> element and its events ----------------- *)

\* the element loads the stream it was given and starts to play (autoPlay)
VideoAdvance(d) ==
  /\ NoMicrotask
  /\ video.mounted
  /\ video.srcObject \in live
  /\ video.stage < MaxStage
  /\ video' = [video EXCEPT !.stage = @ + 1,
                            !.dims = IF video.stage = 0 THEN d ELSE @]
  /\ event' = NoEvent
  /\ UNCHANGED <<Env, CaptureVars, screen, state, streamRef, heldFacing, live, calls>>

\* video.play() was called on the element of call c and resolved
Played(w, c) ==
  IF ~w.calls[c].detached /\ w.video.stage < 3 /\ MaxStage >= 3
    THEN [w EXCEPT !.video.stage = 3]
    ELSE w

\* 'loadedmetadata' reaches the listener of call c
MetadataLoaded(c) ==
  /\ NoMicrotask
  /\ hook \in {"H1", "H2", "H5"}
  /\ Pending(c, {"wait", "wait2", "swait"})
  /\ calls[c].handler
  /\ ElReached(World, c, 1)
  /\ Apply(CASE calls[c].pc = "wait2" -> RPSucceed(World, c)
             [] calls[c].pc = "swait" ->
                  SetEvent([World EXCEPT !.calls[c].pc = "splay"], NoEvent)
             [] hook = "H5" ->
                  SetEvent([World EXCEPT !.calls[c].pc = "play"], NoEvent)
             [] OTHER -> RPSucceed(World, c),
           screen)
  /\ UNCHANGED <<Env, CaptureVars>>

\* H3: 'canplay' reaches video.oncanplay, which clears the timeout and calls
\* video.play()
CanPlay(c) ==
  /\ NoMicrotask
  /\ hook = "H3"
  /\ Pending(c, {"wait"})
  /\ calls[c].handler
  /\ ElReached(World, c, 2)
  /\ Apply(SetEvent([World EXCEPT !.calls[c].pc = "play"], NoEvent), screen)
  /\ UNCHANGED <<Env, CaptureVars>>

\* H3: the promise of the wait is rejected; the empty catch block ends the
\* call but oncanplay stays installed on the element
H3Reject(w, c, cause) ==
  SetEvent([w EXCEPT !.calls[c].settled = TRUE],
           Ev("rp_failed", w.calls[c].reqs, cause))

\* the rejection of a readiness wait, by cause
WaitRejected(w, c, msg, cause) ==
  CASE hook = "H3" -> H3Reject(w, c, cause)
    [] w.calls[c].pc = "wait2" -> RPFallbackFailed(w, c, cause)
    [] w.calls[c].pc \in {"swait", "splay", "ssettle"} -> SwitchCatch(w, c, cause)
    [] OTHER -> RPCatch(w, c, ThrownError(msg), cause)

\* the pcs at which an 'error' event of the element still has a listener
ErrorListened(c) ==
  CASE hook = "H1" -> calls[c].pc = "wait"
    [] hook = "H3" -> calls[c].pc \in {"wait", "play"} /\ calls[c].handler
                      /\ ~calls[c].settled
    [] hook = "H5" -> calls[c].pc \in WaitPcs
    [] OTHER -> FALSE

\* 'error' reaches the listener of call c
VideoError(c) ==
  /\ NoMicrotask
  /\ calls[c].kind # "free"
  /\ ErrorListened(c)
  /\ ElSrc(World, c) # 0
  /\ Apply(WaitRejected(World, c, MsgLoadFailed, "video error"), screen)
  /\ UNCHANGED <<Env, CaptureVars>>

\* the pcs at which a setTimeout of the wait is armed and not yet disarmed
TimeoutArmed(c) ==
  CASE hook = "H3" -> calls[c].pc = "wait" /\ ~calls[c].settled
    [] hook = "H5" -> calls[c].pc \in {"wait", "play", "settle",
                                       "swait", "splay", "ssettle"}
    [] OTHER -> FALSE

\* the timeout of the readiness wait fires
WaitTimeout(c) ==
  /\ NoMicrotask
  /\ calls[c].kind # "free"
  /\ TimeoutArmed(c)
  /\ Apply(WaitRejected(World, c, MsgTimeout, "timeout"), screen)
  /\ UNCHANGED <<Env, CaptureVars>>

\* the promise of video.play() settles
PlaySettled(c, ok) ==
  /\ NoMicrotask
  /\ hook \in {"H3", "H5"}
  /\ Pending(c, {"play", "splay"})
  /\ ok => ElReached(World, c, 2)
  /\ Apply(
       IF hook = "H3"
         THEN IF ok
                THEN \* setState isReady, then resolve()
                     LET w == [Played(World, c) EXCEPT !.state.isReady = TRUE]
                     IN IF calls[c].settled
                          THEN SetEvent(EndCall(w, c), NoEvent)
                          ELSE SetEvent([w EXCEPT !.calls[c].pc = "ready"], NoEvent)
                ELSE IF calls[c].settled
                       THEN SetEvent(EndCall(World, c), NoEvent)
                       ELSE RPCatch(World, c, ThrownError(MsgPlayFailed), "play failed")
         ELSE IF ok
                THEN SetEvent([Played(World, c) EXCEPT !.calls[c].pc =
                                 IF calls[c].pc = "play" THEN "settle" ELSE "ssettle"],
                              NoEvent)
                ELSE WaitRejected(World, c, MsgPlayFailed, "play failed"),
       screen)
  /\ UNCHANGED <<Env, CaptureVars>>

\* H5: the 500 ms (300 ms in switchCamera) stabilisation timer fires
SettleTimer(c) ==
  /\ NoMicrotask
  /\ hook = "H5"
  /\ Pending(c, {"settle", "ssettle"})
  /\ Apply(IF calls[c].pc = "settle" THEN RPSucceed(World, c)
                                     ELSE SwitchSucceed(World, c),
           screen)
  /\ UNCHANGED <<Env, CaptureVars>>

\* H3: the await of the wait resumes after resolve()
Resume(c) ==
  /\ Pending(c, {"ready"})
  /\ Apply(RPSucceed(World, c), screen)
  /\ UNCHANGED <<Env, CaptureVars>>


(* ------------------------------ capturing ------------------------------ *)

\* capturePhoto called on the bare hook
capturePhotoCall(blobOk) ==
  /\ NoMicrotask
  /\ screen = "camera"
  /\ comp = "API"
  /\ event' = CaptureRecord(World, blobOk)
  /\ UNCHANGED <<Env, screen, state, streamRef, heldFacing, live, video, calls,
                 isCapturing, countdown, capPc, upPc>>

\* the capture button: handleCapture up to the first second of the countdown
handleCapture ==
  /\ NoMicrotask
  /\ screen = "camera"
  /\ comp \in {"K1", "K2", "K3"}
  /\ state.isActive
  /\ ~isCapturing
  /\ capPc = "idle"
  /\ isCapturing' = TRUE
  /\ countdown' = 3
  /\ capPc' = "count"
  /\ event' = NoEvent
  /\ UNCHANGED <<Env, screen, state, streamRef, heldFacing, live, video, calls, upPc>>

\* one second of the countdown elapsed
CountdownTick ==
  /\ NoMicrotask
  /\ capPc = "count"
  /\ countdown > 1
  /\ countdown' = countdown - 1
  /\ event' = NoEvent
  /\ UNCHANGED <<Env, screen, state, streamRef, heldFacing, live, video, calls,
                 isCapturing, capPc, upPc>>

\* variant of the step in which a rejection of capturePhoto also releases the
\* camera
CountdownDone_ReleasesCamera(blobOk) ==
  /\ NoMicrotask
  /\ capPc = "count"
  /\ countdown = 1
  /\ countdown' = 0
  /\ IF capturePhoto(World, blobOk) = "ok"
       THEN /\ capPc' = "saving"
            /\ event' = CaptureRecord(World, blobOk)
            /\ UNCHANGED <<isCapturing, screen, state, streamRef, heldFacing, live, video, calls>>
       ELSE /\ capPc' = "idle"
            /\ isCapturing' = FALSE
            /\ Apply(SetEvent(stopCamera(World), CaptureRecord(World, blobOk)), screen)
  /\ UNCHANGED <<Env, upPc>>

\* the last second elapsed: capturePhoto runs; a rejection is caught and
\* ends handleCapture, a blob is handed to onPhotoTaken
CountdownDone(blobOk) ==
  /\ NoMicrotask
  /\ capPc = "count"
  /\ countdown = 1
  /\ countdown' = 0
  /\ event' = CaptureRecord(World, blobOk)
  /\ IF capturePhoto(World, blobOk) = "ok"
       THEN capPc' = "saving" /\ UNCHANGED isCapturing
       ELSE capPc' = "idle" /\ isCapturing' = FALSE
  /\ UNCHANGED <<Env, screen, state, streamRef, heldFacing, live, video, calls, upPc>>

\* variant of the step that calls onClose whatever onPhotoTaken did
SaveSettled_ClosesAlways(ok) ==
  /\ NoMicrotask
  /\ capPc = "saving"
  /\ capPc' = "idle"
  /\ isCapturing' = FALSE
  /\ IF ok
       THEN IF screen # "closed"
              THEN Apply(Unmounted(World), "closed")
              ELSE Apply(SetEvent(World, NoEvent), screen)
       ELSE \E e \in SaveErrors :
              Apply(SetEvent(Unmounted(World),
                             [Ev("save_failed", 0, "none") EXCEPT
                                !.toast = CaptureFailedToast(e)]), "closed")
  /\ UNCHANGED <<Env, countdown, upPc>>

\* onPhotoTaken settles; on success handleCapture shows its toast and calls
\* onClose, which unmounts the screen; a rejection is caught like one of
\* capturePhoto
SaveFailed(e) == [Ev("save_failed", 0, "none") EXCEPT !.toast = CaptureFailedToast(e)]

SaveSettled(ok) ==
  /\ NoMicrotask
  /\ capPc = "saving"
  /\ capPc' = "idle"
  /\ isCapturing' = FALSE
  /\ IF ok
       THEN IF screen # "closed"
              THEN Apply(Unmounted(World), "closed")
              ELSE Apply(SetEvent(World, NoEvent), screen)
       ELSE \E e \in SaveErrors : Apply(SetEvent(World, SaveFailed(e)), screen)
  /\ UNCHANGED <<Env, countdown, upPc>>

(* ----------------------------- file upload ----------------------------- *)

\* 10 * 1024 * 1024, the largest file.size accepted
MaxFileSize == 10485760

\* event.target.files?.[0]: nothing selected, or a file with its type
\* (image/* or not) and its size in bytes
NoFile == [selected |-> FALSE, image |-> FALSE, size |-> 0]
Files ==
  {NoFile} \cup [selected : {TRUE}, image : BOOLEAN,
                 size : {0, MaxFileSize, MaxFileSize + 1}]

\* the toasts of handleFileUpload
ToastInvalidFile == [title |-> "Invalid File", description |-> "Please select an image file."]
ToastTooLarge ==
  [title |-> "File Too Large", description |-> "Please select an image smaller than 10MB."]
UploadFailedToast(e) ==
  [title |-> "Upload Failed",
   description |-> IF e.isError THEN e.message
                   ELSE "Failed to upload photo. Please try again."]

\* what handleFileUpload did with the file
FileRecord(f) ==
  [Ev("file", 0, "none") EXCEPT
     !.result = IF ~f.selected THEN "no file"
                ELSE IF ~f.image THEN "not an image"
                ELSE IF f.size > MaxFileSize THEN "too large"
                ELSE "accepted",
     !.toast = IF ~f.selected THEN NoToast
               ELSE IF ~f.image THEN ToastInvalidFile
               ELSE IF f.size > MaxFileSize THEN ToastTooLarge
               ELSE NoToast]

\* variant of the handler without the check of file.size
handleFileUpload_AnySize(f) ==
  /\ NoMicrotask
  /\ UploadOffered
  /\ event' = FileRecord(f)
  /\ IF f.selected /\ f.image
       THEN isCapturing' = TRUE /\ upPc' = "saving"
       ELSE UNCHANGED <<isCapturing, upPc>>
  /\ UNCHANGED <<Env, screen, state, streamRef, heldFacing, live, video, calls,
                 countdown, capPc>>

\* the user picked file f with the "Upload Photo" button: handleFileUpload up
\* to its await of onPhotoTaken
handleFileUpload(f) ==
  /\ NoMicrotask
  /\ UploadOffered
  /\ event' = FileRecord(f)
  /\ IF f.selected /\ f.image /\ ~(f.size > MaxFileSize)
       THEN isCapturing' = TRUE /\ upPc' = "saving"
       ELSE UNCHANGED <<isCapturing, upPc>>
  /\ UNCHANGED <<Env, screen, state, streamRef, heldFacing, live, video, calls,
                 countdown, capPc>>

UploadFailed(e) == [Ev("upload_failed", 0, "none") EXCEPT !.toast = UploadFailedToast(e)]

\* variant of the step whose finally block leaves isCapturing alone
FileSaveSettled_KeepsCapturing(ok) ==
  /\ NoMicrotask
  /\ upPc = "saving"
  /\ upPc' = "idle"
  /\ IF ok
       THEN IF screen # "closed"
              THEN Apply(SetEvent(Unmounted(World), Ev("upload_saved", 0, "none")),
                         "closed")
              ELSE Apply(SetEvent(World, NoEvent), screen)
       ELSE \E e \in SaveErrors : Apply(SetEvent(World, UploadFailed(e)), screen)
  /\ UNCHANGED <<Env, isCapturing, countdown, capPc>>

\* onPhotoTaken settles for an uploaded file: on success the toast and
\* onClose, on rejection the "Upload Failed" toast; finally isCapturing is
\* reset
FileSaveSettled(ok) ==
  /\ NoMicrotask
  /\ upPc = "saving"
  /\ upPc' = "idle"
  /\ isCapturing' = FALSE
  /\ IF ok
       THEN IF screen # "closed"
              THEN Apply(SetEvent(Unmounted(World), Ev("upload_saved", 0, "none")),
                         "closed")
              ELSE Apply(SetEvent(World, NoEvent), screen)
       ELSE \E e \in SaveErrors : Apply(SetEvent(World, UploadFailed(e)), screen)
  /\ UNCHANGED <<Env, countdown, capPc>>

(* -------------------------------- Next --------------------------------- *)

Next ==
  \/ Mount
  \/ handleStartCamera
  \/ showGuide
  \/ handleRetryCamera
  \/ switchCameraClick
  \/ stopCameraCall
  \/ Close
  \/ \E c \in Slots : EnumDone(c)
  \/ \E c \in Slots : GumResolved(c)
  \/ \E c \in Slots, n \in GumErrorNames : GumRejected(c, n)
  \/ \E d \in BOOLEAN : VideoAdvance(d)
  \/ \E c \in Slots : MetadataLoaded(c)
  \/ \E c \in Slots : CanPlay(c)
  \/ \E c \in Slots : VideoError(c)
  \/ \E c \in Slots : WaitTimeout(c)
  \/ \E c \in Slots, ok \in BOOLEAN : PlaySettled(c, ok)
  \/ \E c \in Slots : SettleTimer(c)
  \/ \E c \in Slots : Resume(c)
  \/ \E b \in BOOLEAN : capturePhotoCall(b)

Spec == Init /\ [][Next]_vars

\* what the platform and the event loop guarantee: a getUserMedia or
\* enumerateDevices request is answered, the promise of video.play() settles,
\* an armed timer fires, the continuation of a settled promise runs and an
\* event the <video> element has become due for is dispatched.  The element
\* owes no progress in loading its stream, and the user owes no click.
Fairness ==
  /\ WF_vars(\E c \in Slots : MetadataLoaded(c))
  /\ WF_vars(\E c \in Slots : CanPlay(c))
  /\ WF_vars(\E c \in Slots : EnumDone(c))
  /\ WF_vars(\/ \E c \in Slots : GumResolved(c)
             \/ \E c \in Slots, n \in GumErrorNames : GumRejected(c, n))
  /\ WF_vars(\E c \in Slots, ok \in BOOLEAN : PlaySettled(c, ok))
  /\ WF_vars(\E c \in Slots : WaitTimeout(c))
  /\ WF_vars(\E c \in Slots : SettleTimer(c))
  /\ WF_vars(\E c \in Slots : Resume(c))

SpecFair == Spec /\ Fairness

\* the camera, with the facing mode each request asked for
SpecFacing == InitFacing /\ [][Next]_vars

\* the camera together with the capture button of the screens
NextCapture ==
  \/ Next
  \/ handleCapture
  \/ CountdownTick
  \/ \E b \in BOOLEAN : CountdownDone(b)
  \/ \E ok \in BOOLEAN : SaveSettled(ok)

SpecCapture == Init /\ [][NextCapture]_vars

\* the screens alone, with the capture button and the file input
InitScreens == Init /\ comp # "API"
\* the screens that have the capture button and the file input
InitUploadScreens == InitScreens /\ comp \in {"K1", "K2"}

\* the steps of the screens that have the file input; they render the video
\* element only while isActive
NextUploadScreens ==
  \/ Mount
  \/ handleStartCamera
  \/ handleRetryCamera
  \/ switchCameraClick
  \/ Close
  \/ \E c \in Slots : EnumDone(c)
  \/ \E c \in Slots : GumResolved(c)
  \/ \E c \in Slots, n \in GumErrorNames : GumRejected(c, n)
  \/ \E d \in BOOLEAN : VideoAdvance(d)
  \/ \E c \in Slots : MetadataLoaded(c)
  \/ \E c \in Slots : VideoError(c)
  \/ \E c \in Slots : WaitTimeout(c)
  \/ \E c \in Slots, ok \in BOOLEAN : PlaySettled(c, ok)
  \/ \E c \in Slots : SettleTimer(c)
  \/ handleCapture
  \/ CountdownTick
  \/ \E b \in BOOLEAN : CountdownDone(b)
  \/ \E ok \in BOOLEAN : SaveSettled(ok)
  \/ \E f \in Files : handleFileUpload(f)
  \/ \E ok \in BOOLEAN : FileSaveSettled(ok)

\* with the steps that occur on the third screen only, where the pose guide
\* reopens over an active camera and requestPermission then runs with the
\* video element rendered
NextUpload ==
  \/ showGuide
  \/ \E c \in Slots : CanPlay(c)
  \/ \E c \in Slots : Resume(c)
  \/ NextUploadScreens

SpecUpload == InitScreens /\ [][NextUpload]_vars

\* the event loop does not stop: as long as a timer of the countdown, the
\* end of capturePhoto or the settling of onPhotoTaken is due, one of them
\* runs
PipelineFairness ==
  WF_vars(\/ CountdownTick
          \/ \E b \in BOOLEAN : CountdownDone(b)
          \/ \E ok \in BOOLEAN : SaveSettled(ok)
          \/ \E ok \in BOOLEAN : FileSaveSettled(ok))

SpecUploadFair ==
  InitUploadScreens /\ [][NextUploadScreens]_vars /\ PipelineFairness

(* ------------------- the challenge page: operations -------------------- *)

Max(a, b) == IF a >= b THEN a ELSE b
Min(a, b) == IF a <= b THEN a ELSE b

\* handlePhotoTaken: the values computed from the progress the closure holds
NewStreak(cp) == IF cp.exists THEN cp.current_streak + 1 ELSE 1
NewTotal(cp) == IF cp.exists THEN cp.total_photos + 1 ELSE 1
NewPoints(cp) == IF cp.exists THEN cp.points_earned + 10 ELSE 10

\* the dayNumber prop of the camera screen, from the progress of the page
getNextDayNumber(pr) == IF pr.exists THEN pr.total_photos + 1 ELSE 1

\* the two bonuses of a capture: for starting the challenge, for the streak
bonusPoints(cp) == IF NewTotal(cp) = 1 THEN 10 ELSE 0
streakBonus(cp) == IF NewStreak(cp) > 1 THEN Min(NewStreak(cp) * 2, 20) ELSE 0

\* the Light handed to awardLight, with a streak bonus from the first day on
TotalLightEarned_StreakFromOne(cp) ==
  15 + (IF NewTotal(cp) = 1 THEN 10 ELSE 0)
     + (IF NewStreak(cp) > 0 THEN Min(NewStreak(cp) * 2, 20) ELSE 0)

\* the Light handed to awardLight, which keeps its own ledger
TotalLightEarned(cp) ==
  15 + (IF NewTotal(cp) = 1 THEN 10 ELSE 0)
     + (IF NewStreak(cp) > 1 THEN Min(NewStreak(cp) * 2, 20) ELSE 0)

\* the statement that writes the progress
WritePath(rev, cp) ==
  IF rev = "P1" THEN (IF cp.exists THEN "update" ELSE "insert") ELSE "upsert"

\* variant of the write that carries the previous longest_streak over
ProgressRow_KeepsLongest(rev, cp, d) ==
  [exists |-> TRUE,
   current_streak |-> NewStreak(cp),
   longest_streak |-> IF cp.exists THEN cp.longest_streak ELSE 0,
   total_photos |-> NewTotal(cp),
   points_earned |-> NewPoints(cp),
   last_photo_date |-> d]

\* variant of the write that takes the new streak for longest_streak
ProgressRow_LongestIsNewStreak(rev, cp, d) ==
  [exists |-> TRUE,
   current_streak |-> NewStreak(cp),
   longest_streak |-> NewStreak(cp),
   total_photos |-> NewTotal(cp),
   points_earned |-> NewPoints(cp),
   last_photo_date |-> d]

\* the row that statement writes on calendar day d
ProgressRow(rev, cp, d) ==
  [exists |-> TRUE,
   current_streak |-> NewStreak(cp),
   longest_streak |->
     IF WritePath(rev, cp) = "insert" THEN NewStreak(cp)
     ELSE Max(NewStreak(cp), IF cp.exists THEN cp.longest_streak ELSE 0),
   total_photos |-> NewTotal(cp),
   points_earned |-> NewPoints(cp),
   last_photo_date |-> d]

\* JavaScript numbers, as far as the percentage needs them: a quotient of two
\* non-negative integers is NaN (0 / 0), Infinity (n / 0) or the fraction
\* num / den
NaN == [kind |-> "NaN", num |-> 0, den |-> 1]
Infinity == [kind |-> "Infinity", num |-> 0, den |-> 1]
Finite(n, d) == [kind |-> "finite", num |-> n, den |-> d]
Divide(a, b) ==
  IF b # 0 THEN Finite(a, b) ELSE IF a = 0 THEN NaN ELSE Infinity
Times(x, k) == IF x.kind = "finite" THEN Finite(x.num * k, x.den) ELSE x
\* Math.min(x, k): NaN if an argument is NaN
MathMin(x, k) ==
  IF x.kind = "NaN" THEN NaN
  ELSE IF x.kind = "Infinity" THEN Finite(k, 1)
  ELSE IF x.num <= k * x.den THEN x ELSE Finite(k, 1)
\* x <= y as JavaScript compares numbers: false if either is NaN
Leq(x, y) ==
  /\ x.kind # "NaN" /\ y.kind # "NaN"
  /\ \/ y.kind = "Infinity"
     \/ x.kind = "finite" /\ y.kind = "finite" /\ x.num * y.den <= y.num * x.den
IsValue(x, k) == x.kind = "finite" /\ x.num = k * x.den

\* found: the challenge is in the list of the page; td its target_days
getProgressPercentage(found, td, pr) ==
  IF ~found \/ ~pr.exists THEN Finite(0, 1)
  ELSE MathMin(Times(Divide(pr.total_photos, td), 100), 100)

canTakePhotoToday(pr, d) ==
  ~pr.exists \/ pr.last_photo_date = 0 \/ pr.last_photo_date # d

\* the camera side of the model does not move while the page is explored
CameraVars == <<hook, comp, secure, supported, screen, state, streamRef, heldFacing, live,
                video, calls, event, isCapturing, countdown, capPc, upPc, ops>>

\* a step of the page; the observation of a write lasts one step
PageStep(pg) == page' = pg /\ UNCHANGED CameraVars
Quiet(pg) == [pg EXCEPT !.write = NoWrite, !.step = NoStep]
\* the step the page was at has settled
Settled(pg, ok) ==
  [pg EXCEPT !.step = [name |-> page.pc, ok |-> ok,
                       thrown |-> page.pc # "refresh" /\ pg.pc = "idle",
                       returned |-> page.pc = "refresh" /\ pg.pc = "idle"]]

\* a fetchChallenges started by the mount effect or by the template selector
\* settles: on success the page state takes the stored row, on failure
\* (caught, a toast) it keeps what it had
FetchSettled(ok) ==
  /\ page.fetching
  /\ PageStep(Quiet([page EXCEPT
        !.fetching = FALSE,
        !.challenges = IF ok THEN TRUE ELSE @,
        !.progress = IF ok THEN page.table ELSE @]))

handleTemplateSelected ==
  /\ page.rev \in {"P1", "P3"}
  /\ ~page.fetching
  /\ ~page.showCamera
  /\ PageStep(Quiet([page EXCEPT !.fetching = TRUE]))

\* the Take Photo button of the challenge card; PhotoChallenge.tsx shows the
\* cards only while it is not loading and disables the button by
\* canTakePhotoToday
startCamera ==
  /\ page.challenges
  /\ ~page.showCamera
  /\ page.rev = "P1" => (~page.fetching /\ page.pc # "refresh")
  /\ page.rev = "P1" => canTakePhotoToday(page.progress, page.today)
  /\ PageStep(Quiet([page EXCEPT !.showCamera = TRUE]))

\* onClose of the camera screen (its Cancel and X buttons)
closeCamera ==
  /\ page.showCamera
  /\ PageStep(Quiet([page EXCEPT !.showCamera = FALSE]))

\* the camera screen hands a photo (a capture or an uploaded file) to
\* onPhotoTaken: handlePhotoTaken runs up to the upload
PhotoTaken ==
  /\ page.showCamera
  /\ page.pc = "idle"
  /\ page.photos < MaxPhotos
  /\ PageStep(Quiet([page EXCEPT !.pc = "upload", !.photos = @ + 1,
                                  !.currentProgress = page.progress,
                                  !.dayNumber = getNextDayNumber(page.progress)]))

\* variant in which the catch block swallows the error and the refresh runs
Thrown_GoesOn(pg) == Quiet([pg EXCEPT !.pc = "refresh"])

\* handlePhotoTaken rethrows: the camera screen shows a toast and stays open
Thrown(pg) == Quiet([pg EXCEPT !.pc = "idle"])

UploadSettled(ok) ==
  /\ page.pc = "upload"
  /\ PageStep(Settled(IF ok THEN Quiet([page EXCEPT !.pc = "entry", !.uploads = @ + 1])
                             ELSE Thrown(page), ok))

EntrySettled(ok) ==
  /\ page.pc = "entry"
  /\ PageStep(Settled(IF ok THEN Quiet([page EXCEPT !.pc = "write", !.entries = @ + 1,
                                                    !.lastDay = page.dayNumber])
                             ELSE Thrown(page), ok))

\* the write of the progress row settles.  The row written becomes the row
\* stored for the challenge, whichever of update, insert and upsert wrote it.
ProgressWritten(ok) ==
  /\ page.pc = "write"
  /\ PageStep(Settled(
       IF ok
         THEN [page EXCEPT
                 !.pc = IF page.rev = "P4" THEN "refresh" ELSE "award",
                 !.table = ProgressRow(page.rev, page.currentProgress, page.today),
                 !.write = [done |-> TRUE,
                            path |-> WritePath(page.rev, page.currentProgress),
                            before |-> page.table,
                            row |-> ProgressRow(page.rev, page.currentProgress,
                                                page.today),
                            day |-> page.today]]
         ELSE Thrown(page), ok))

\* awardLight settles; it is awaited inside the try block, so its rejection
\* is rethrown like the errors of the steps before it
AwardSettled(ok) ==
  /\ page.pc = "award"
  /\ PageStep(Settled(IF ok THEN Quiet([page EXCEPT !.pc = "refresh"])
                             ELSE Thrown(page), ok))

\* the fetchChallenges at the end of handlePhotoTaken settles, handlePhotoTaken
\* returns and the camera screen calls onClose
RefreshSettled(ok) ==
  /\ page.pc = "refresh"
  /\ PageStep(Settled(Quiet([page EXCEPT
        !.pc = "idle",
        !.accepted = @ + 1,
        !.showCamera = FALSE,
        !.challenges = IF ok THEN TRUE ELSE @,
        !.progress = IF ok THEN page.table ELSE @]), ok))

\* midnight (UTC) passes
NextDay ==
  /\ page.today < MaxDay
  /\ PageStep(Quiet([page EXCEPT !.today = @ + 1]))

InitProgress ==
  /\ hook = "H1" /\ comp = "K1" /\ secure = TRUE /\ supported = TRUE
  /\ screen = "new"
  /\ state = InitialState
  /\ streamRef = 0
  /\ heldFacing = "off"
  /\ live = {}
  /\ video = NoVideo
  /\ calls = [c \in Slots |-> FreeCall]
  /\ event = NoEvent
  /\ isCapturing = FALSE
  /\ countdown = 0
  /\ capPc = "idle"
  /\ upPc = "idle"
  /\ ops = 0
  /\ \E r \in Pages, row \in {NoProgress, ZeroProgress, StoredProgress},
        td \in 0..MaxTarget :
       page = [InitialPage(r, row) EXCEPT !.target_days = td]

NextProgress ==
  \/ \E ok \in BOOLEAN : FetchSettled(ok)
  \/ handleTemplateSelected
  \/ startCamera
  \/ closeCamera
  \/ PhotoTaken
  \/ \E ok \in BOOLEAN : UploadSettled(ok)
  \/ \E ok \in BOOLEAN : EntrySettled(ok)
  \/ \E ok \in BOOLEAN : ProgressWritten(ok)
  \/ \E ok \in BOOLEAN : AwardSettled(ok)
  \/ \E ok \in BOOLEAN : RefreshSettled(ok)
  \/ NextDay

SpecProgress == InitProgress /\ [][NextProgress]_vars

(* ------------------------------- claims -------------------------------- *)

\* C1: at most one camera stream has un-stopped tracks: every stream the
\* platform has delivered is either the one held in streamRef or has had all
\* its tracks stopped.  Stated for the hook of useCamera.tsx lines 11-298
\* under the screen whose mount effect starts the camera.
C1_AtMostOneOpenStream ==
  (hook = "H1" /\ comp = "K2") => live \subseteq {streamRef}

\* C2: once the screen was closed (unmounted) no stream has live tracks, in
\* any later state, also when an acquisition was in flight at the close.
C2_NoLiveStreamAfterClose ==
  (hook = "H1" /\ comp = "K1" /\ screen = "closed") => live = {}

\* C3: capturePhoto yields a blob only when the <video> element holds a
\* decodable frame of its stream with non-zero dimensions (and, where the
\* hook has the flag, isReady is true).  Stated for the captures the screens
\* make at the end of their countdown.
C3_CaptureNeedsFrame ==
  (hook \in {"H1", "H3"} /\ comp # "API" /\ event.name = "capture"
     /\ event.result = "ok")
    => /\ event.hadFrame
       /\ hook = "H3" => event.wasReady

\* C4: isReady implies isActive in every reachable state, the window between
\* the readiness callback and the success update included.
C4_ReadyImpliesActive == state.isReady => state.isActive

\* C4 witness: the readiness callback of part_005 has set isReady and the
\* success update of the call is still to run.
C4_Witness ==
  hook = "H3" /\ state.isReady /\ \E c \in Slots : calls[c].pc = "ready"

\* the phase Error of the camera
InError(st) == ~st.isActive /\ ~st.isLoading /\ st.error # NoError

\* C5: a requestPermission call that failed, for whatever reason, leaves the
\* state Error: isActive = FALSE, isLoading = FALSE and error non-null.
\* Stated while the screen is mounted.
C5_FailureLeavesError ==
  (hook \in {"H1", "H3", "H5"} /\ screen # "closed" /\ event.name = "rp_failed")
    => InError(state)

\* C6: a switchCamera call started from Active ends either Active, holding
\* the only live stream, or in Error with isActive = FALSE; never with
\* isActive = TRUE over a stopped stream and never with two live streams.
\* Stated while the screen is mounted.
C6_SwitchEndsActiveOrError ==
  (hook \in {"H1", "H2"} /\ comp = "K1" /\ screen # "closed"
     /\ event.name \in {"sw_done", "sw_failed"})
    => \/ state.isActive /\ streamRef # 0 /\ live = {streamRef}
       \/ InError(state) /\ live \subseteq {streamRef}

\* C7: the error message is present only in the phase Error (isActive and
\* isLoading both FALSE), and it is null after stopCamera.
C7_ErrorOnlyInError ==
  hook \in {"H1", "H2"}
    => /\ state.error # NoError => (~state.isActive /\ ~state.isLoading)
       /\ event.name = "stop" => state.error = NoError

\* a requestPermission call has its stream and waits for the <video> element
InReadinessWait ==
  \E c \in Slots : /\ calls[c].kind = "req"
                    /\ calls[c].pc \in {"wait", "play", "settle", "wait2"}

\* C8: a requestPermission call whose stream request was answered leaves the
\* readiness wait, on the normal and on the fallback path, even if the
\* <video> element never signals readiness or an error.
C8_ReadinessWaitEnds ==
  (hook \in {"H1", "H5"} /\ InReadinessWait)
    ~> (~InReadinessWait \/ screen = "closed")

\* C9: one requestPermission call issues getUserMedia at most twice; the
\* second request is issued exactly when the first was rejected as
\* over-constrained, an over-constrained failure is reported only after the
\* second request failed too, and no other failure is retried.
C9_OneFallbackOnly ==
  hook \in {"H1", "H5"}
    => /\ \A c \in Slots : calls[c].reqs <= 2
       /\ event.name = "rp_fallback" =>
            (event.cause = "OverconstrainedError" /\ event.reqs = 2)
       /\ (event.name = "rp_failed" /\ event.reqs = 1) =>
            event.cause # "OverconstrainedError"
       /\ event.name \in {"rp_failed", "rp_active"} => event.reqs <= 2

\* C9 witness: the first request was rejected as over-constrained, the
\* fallback request was issued and failed, and the error is reported.
C9_Witness ==
  /\ hook \in {"H1", "H5"}
  /\ event.name = "rp_failed"
  /\ event.reqs = 2
  /\ state.error # NoError

\* C10: in the phase Error capturePhoto fails at once with the
\* camera-unavailable error, before it reads the <video> element.
C10_CaptureInErrorUnavailable ==
  (hook = "H1" /\ comp = "K1" /\ event.name = "capture" /\ event.wasError)
    => (event.result = MsgCameraUnavailable /\ ~event.readVideo)

\* what stopCamera leaves behind when it is called in the current state
AfterStop == stopCamera(World)
StopReleases ==
  /\ AfterStop.live = live \ {streamRef}
  /\ AfterStop.streamRef = 0
  /\ AfterStop.video.srcObject = 0
  /\ ~AfterStop.state.isActive
StopTwiceIsStopOnce == stopCamera(AfterStop) = AfterStop
StopChangesNothing == AfterStop.state = state /\ AfterStop.live = live

\* C11 as stated: stopCamera called in any state stops the tracks of the held
\* stream, detaches the <video> element and leaves isActive = FALSE with
\* nothing held; a second stopCamera changes nothing, and a stopCamera when
\* nothing is held changes no state and stops nothing.
C11_StopIdempotent ==
  /\ StopReleases
  /\ StopTwiceIsStopOnce
  /\ streamRef = 0 => StopChangesNothing

\* C11 amended: as above, but a stopCamera with nothing held changes no state
\* only when the camera is idle (isActive = FALSE and error null); from Error
\* it clears the error and from a re-acquisition of an active camera it
\* clears isActive.
C11_StopIdempotentFromIdle ==
  /\ StopReleases
  /\ StopTwiceIsStopOnce
  /\ (streamRef = 0 /\ ~state.isActive /\ state.error = NoError)
       => StopChangesNothing

\* C11 witness: stopCamera has just released the stream of a camera that was
\* started, and a further stopCamera would change nothing.
C11_Witness ==
  /\ event.name \in {"stop", "close"}
  /\ state.hasPermission
  /\ streamRef = 0 /\ live = {} /\ ~state.isActive
  /\ StopChangesNothing

\* the calls whose getUserMedia request the platform has not answered yet
AwaitingPlatform == {c \in Slots : calls[c].pc \in {"gum", "gum2", "sgum"}}

\* C12: at most one acquisition (requestPermission or switchCamera) awaits the
\* platform at any instant; a second one is rejected or deferred.
C12_OneAcquisitionInFlight ==
  (hook = "H1" /\ comp = "K2") => Cardinality(AwaitingPlatform) <= 1

\* a step in which isActive changes from FALSE to TRUE
BecomesActive == ~state.isActive /\ state'.isActive

\* C13: isActive changes from FALSE to TRUE only in a step taken from a state
\* with isLoading = TRUE; no operation, switchCamera and an acquisition that
\* completes after stopCamera included, activates a camera that is not loading.
C13_ActiveOnlyFromLoading ==
  [][(hook \in {"H1", "H2"} /\ comp # "API" /\ BecomesActive)
       => state.isLoading]_vars

\* C14: when the screen closes during the countdown the countdown is aborted:
\* after the close the capture attempt calls neither capturePhoto nor
\* onPhotoTaken and raises no notification.
C14_CloseAbortsCountdown ==
  (comp = "K1" /\ screen = "closed") => event.name # "capture"

\* the requestPermission calls in flight
Requests == {c \in Slots : calls[c].kind = "req"}
Requesting == Requests # {}
\* a step in which a requestPermission call starts and reaches its request
StartsRequest == Cardinality(Requests') > Cardinality(Requests)

\* the first state update of requestPermission resets the error: a step that
\* puts a call in flight leaves isLoading = TRUE and error = null
RequestStartsClean ==
  [][StartsRequest => (state'.isLoading /\ state'.error = NoError)]_vars

\* C15: a retry from Error resets the error: the first state update of
\* requestPermission sets isLoading = TRUE and error = null, and error stays
\* null for as long as a requestPermission call is in flight.  Stated for the
\* hook of useCamera.tsx lines 11-298 under the screens, while mounted.
C15_RetryResetsError ==
  (hook = "H1" /\ comp # "API" /\ screen # "closed" /\ Requesting)
    => state.error = NoError

\* C16: starting from no row or a zero-valued row, the progress row written
\* by a capture has longest_streak >= current_streak, on the insert, the
\* update and the upsert path, and so has the stored row at all times.
C16_LongestAtLeastCurrent ==
  /\ page.write.done
       => page.write.row.longest_streak >= page.write.row.current_streak
  /\ page.table.longest_streak >= page.table.current_streak

\* C16 witness: a capture has raised the streak of an existing row to a new
\* longest streak of 2 or more.
C16_Witness ==
  /\ page.write.done
  /\ page.write.path \in {"update", "upsert"}
  /\ page.write.before.exists
  /\ page.write.row.current_streak >= 2
  /\ page.write.row.longest_streak > page.write.before.longest_streak

\* the capture just written was the first for the challenge
FirstCapture == ~page.write.before.exists \/ page.write.before.last_photo_date = 0
\* days between the previous capture and the capture just written
Gap == page.write.day - page.write.before.last_photo_date

\* C17: current_streak becomes the previous current_streak + 1 only when the
\* previous capture was on the day before; on a first capture or after a gap
\* of two or more days it becomes 1 and longest_streak keeps a higher value.
\* Stated for the page of PhotoChallenge.tsx and for captures computed from the
\* row that is stored (the progress of the page is not stale).
C17_StreakRule ==
  (page.rev = "P1" /\ page.write.done
     /\ page.currentProgress = page.write.before) =>
    /\ (~FirstCapture /\ Gap = 1)
         => page.write.row.current_streak = page.write.before.current_streak + 1
    /\ (FirstCapture \/ Gap >= 2)
         => /\ page.write.row.current_streak = 1
            /\ page.write.row.longest_streak
                 = Max(page.write.before.longest_streak, 1)

\* C18: at most one capture per challenge and calendar day is accepted: no
\* progress is written on the day that is already the last_photo_date of the
\* stored row, whatever path reached handlePhotoTaken.  Stated for the page of
\* PhotoChallenge.tsx and its update of an existing row.
C18_OneCapturePerDay ==
  (page.rev = "P1" /\ page.write.done /\ page.write.path = "update")
    => page.write.before.last_photo_date # page.write.day

\* C19: total_photos grows by exactly 1 with every accepted capture and never
\* shrinks, so that it counts the accepted captures, also when the refresh
\* after a capture failed and the next capture computes from the progress the
\* page still holds.  Stated for the page of PhotoChallenge.tsx and its update
\* of an existing row.
C19_TotalCountsCaptures ==
  (page.rev = "P1" /\ page.write.done /\ page.write.path = "update")
    => page.write.row.total_photos = page.write.before.total_photos + 1

\* C20: the points_earned written by an accepted capture is the previous
\* points_earned (0 if none) + 15 + 10 for the first photo + min(2 * streak,
\* 20) for a streak above 1.  Stated for the page of PhotoChallenge.tsx and
\* for captures computed from the row that is stored.
C20_PointsRule ==
  (page.rev = "P1" /\ page.write.done
     /\ page.currentProgress = page.write.before)
    => page.write.row.points_earned
         = page.write.before.points_earned + 15
           + (IF page.write.row.total_photos = 1 THEN 10 ELSE 0)
           + (IF page.write.row.current_streak > 1
                THEN Min(2 * page.write.row.current_streak, 20) ELSE 0)

\* C21: a first-ever capture (no progress record held, none stored) writes the
\* progress record total_photos = 1, current_streak = 1, longest_streak = 1,
\* points_earned = 25.
C21_FirstCaptureRecord ==
  (page.rev = "P1" /\ page.write.done /\ page.write.path = "insert"
     /\ ~page.write.before.exists)
  => /\ page.write.row.total_photos = 1
     /\ page.write.row.current_streak = 1
     /\ page.write.row.longest_streak = 1
     /\ page.write.row.points_earned = 25

\* the counters of the first record, the points left aside
FirstRecordCounters ==
  (page.write.done /\ ~page.currentProgress.exists /\ ~page.write.before.exists)
  => /\ page.write.row.total_photos = 1
     /\ page.write.row.current_streak = 1
     /\ page.write.row.longest_streak = 1
     /\ page.write.row.points_earned = 10

\* the percentage the challenge card shows, and the one it would show with
\* one more photo in the record
Percentage == getProgressPercentage(page.challenges, page.target_days, page.progress)
PercentageAfterOneMore ==
  getProgressPercentage(page.challenges, page.target_days,
                        [page.progress EXCEPT !.total_photos = @ + 1])
PercentageContract ==
  /\ Leq(Finite(0, 1), Percentage) /\ Leq(Percentage, Finite(100, 1))
  /\ ~page.progress.exists => IsValue(Percentage, 0)
  /\ Leq(Percentage, PercentageAfterOneMore)
  /\ (page.challenges /\ page.progress.exists
        /\ page.progress.total_photos >= page.target_days)
     => IsValue(Percentage, 100)

\* C22: getProgressPercentage is a number in [0,100] for every challenge and
\* progress record, target_days = 0 and total_photos = 0 included; it is 0
\* without a progress record, does not decrease when total_photos grows and
\* is 100 whenever total_photos >= target_days.
C22_PercentageInRange == PercentageContract

\* the same with a target of at least one day
PercentageContractPositiveTarget == page.target_days >= 1 => PercentageContract

AcquisitionFailed == event.name \in {"rp_failed", "sw_failed"}

\* C24: in every state reached by a failed acquisition (requestPermission or
\* switchCamera) the capture screen offers the upload of a file.
C24_UploadOfferedAfterFailure ==
  (hook = "H1" /\ comp \in {"K1", "K3"} /\ screen = "camera" /\ AcquisitionFailed)
  => UploadOffered

\* the first two revisions of the screen after a failed requestPermission
UploadAfterFailedRequest ==
  (hook # "H3" /\ comp \in {"K1", "K2"} /\ screen = "camera"
     /\ event.name = "rp_failed")
  => UploadOffered

\* the toasts handleCapture shows for the failures of capturePhoto
CaptureFailureToasts ==
  {CaptureFailedToast([isError |-> TRUE, message |-> m]) : m \in CaptureErrors}

\* C25: a failure of onPhotoTaken (upload, entry insert, progress write) is
\* reported with a notification that is not one of those shown for a failure
\* of capturePhoto.
C25_SaveFailureReportedDistinctly ==
  (comp \in {"K1", "K2"} /\ event.name = "save_failed")
  => event.toast \notin CaptureFailureToasts

\* every rejection of capturePhoto is one of CaptureErrors
CaptureErrorsComplete ==
  event.name = "capture" => event.result \in CaptureErrors \cup {"ok"}

\* a step in which capturePhoto ran
CaptureStep == event'.name = "capture"
CaptureRejected == event'.name = "capture" /\ event'.result # "ok"

\* C26: a capturePhoto call, resolved or rejected, leaves the camera state and
\* the held stream as they were; when handleCapture catches its rejection it
\* only shows a toast and resets isCapturing and countdown.
C26_CaptureLeavesCamera ==
  [][/\ CaptureStep
        => /\ state' = state
           /\ streamRef' = streamRef
           /\ live' = live
           /\ video' = video
     /\ (CaptureRejected /\ comp # "API")
        => /\ event'.toast.title = "Capture Failed"
           /\ ~isCapturing'
           /\ countdown' = 0
           /\ screen' = screen
           /\ calls' = calls]_vars

\* a capture has failed on an active camera, which is still active and holds
\* its live stream
C26_Witness ==
  /\ comp # "API"
  /\ event.name = "capture"
  /\ event.result # "ok"
  /\ state.isActive
  /\ streamRef # 0 /\ streamRef \in live
  /\ ~isCapturing /\ countdown = 0

\* the awaited steps of handlePhotoTaken in the order of the source
StepAfter(pc) ==
  CASE pc = "upload" -> "entry"
    [] pc = "entry" -> "write"
    [] pc = "write" -> "award"
    [] pc = "award" -> "refresh"
    [] OTHER -> "idle"

\* a step of handlePhotoTaken settles
StepSettles == page'.step.name # "none"
Stored(pg) == <<pg.uploads, pg.entries, pg.table>>

\* each effect belongs to its step, a step that succeeded is followed by the
\* next one, and a step before the refresh that failed throws and changes
\* nothing that is stored
PipelineInOrder ==
  /\ page'.uploads # page.uploads => (page.pc = "upload" /\ page'.uploads = page.uploads + 1)
  /\ page'.entries # page.entries => (page.pc = "entry" /\ page'.entries = page.entries + 1)
  /\ page'.table # page.table => page.pc = "write"
  /\ (StepSettles /\ page'.step.ok) => page'.pc = StepAfter(page.pc)
  /\ (StepSettles /\ ~page'.step.ok /\ page.pc # "refresh")
       => /\ page'.step.thrown
          /\ page'.pc = "idle"
          /\ Stored(page') = Stored(page)

\* C27: handlePhotoTaken runs upload, entry insert, progress write, Light
\* award and refresh in this order; a failure at any step throws to the
\* caller, skips the later steps and undoes nothing, so a failed progress
\* write leaves the photo stored and the progress record as it was.
C27_PipelineThrowsAtAnyStep ==
  [][page.rev = "P1"
       => /\ PipelineInOrder
          /\ (StepSettles /\ ~page'.step.ok)
               => (page'.step.thrown /\ Stored(page') = Stored(page))]_vars

\* the same, the refresh apart: its failure is caught by fetchChallenges, and
\* handlePhotoTaken returns as after a refresh that succeeded
C27_PipelineThrowsBeforeRefresh ==
  [][page.rev = "P1"
       => /\ PipelineInOrder
          /\ (StepSettles /\ page.pc = "refresh")
               => /\ page'.step.returned /\ ~page'.step.thrown
                  /\ page'.pc = "idle"
                  /\ Stored(page') = Stored(page)
                  /\ ~page'.step.ok => page'.progress = page.progress]_vars

\* the upload and the entry insert succeeded and the progress write failed:
\* the photo is stored and there is still no progress record
C27_Witness ==
  /\ page.rev = "P1"
  /\ page.step.name = "write" /\ ~page.step.ok /\ page.step.thrown
  /\ page.uploads = 1 /\ page.entries = 1
  /\ ~page.table.exists
  /\ page.pc = "idle"

\* the countdown moves 3, 2, 1 and ends with the capturePhoto call
CountdownInOrder ==
  countdown' # countdown
  => \/ countdown = 0 /\ countdown' = 3 /\ capPc = "idle" /\ capPc' = "count"
     \/ countdown = 3 /\ countdown' = 2
     \/ countdown = 2 /\ countdown' = 1
     \/ countdown = 1 /\ countdown' = 0 /\ CaptureStep

\* C28: handleCapture calls capturePhoto only after the countdown has shown
\* 3, 2 and 1, one tick each; onPhotoTaken only after capturePhoto resolved
\* with a blob; onClose only after onPhotoTaken resolved; a step that fails
\* ends handleCapture and leaves the screen open.
C28_CaptureSequence ==
  [][comp = "K1"
       => /\ CountdownInOrder
          /\ CaptureStep => (capPc = "count" /\ countdown = 1 /\ screen' = screen)
          /\ (capPc' = "saving" /\ capPc # "saving")
               => (CaptureStep /\ event'.result = "ok")
          /\ CaptureRejected => (capPc' = "idle" /\ ~isCapturing')
          /\ event'.name = "save_failed"
               => (capPc = "saving" /\ capPc' = "idle" /\ screen' = screen)]_vars

\* the countdown has run and capturePhoto has resolved with a blob, which
\* onPhotoTaken is saving
C28_Witness ==
  /\ comp = "K1"
  /\ screen = "camera"
  /\ event.name = "capture" /\ event.result = "ok"
  /\ capPc = "saving" /\ isCapturing /\ countdown = 0

\* the stream the <video> element plays has no live track: video.ended
Ended == video.srcObject # 0 /\ video.srcObject \notin live
\* video.paused is followed only for the revision of the hook that reads it
SurfaceStopped == Ended \/ (MaxStage > 2 /\ Paused(video))

\* the first precondition of a capture that does not hold, in the order
\* camera held, ready, frame dimensions, render surface running
FirstViolated ==
  IF ~video.mounted \/ streamRef = 0 THEN "unavailable"
  ELSE IF ReadyState(video) < 2 THEN "not ready"
  ELSE IF ~video.dims THEN "no dimensions"
  ELSE IF SurfaceStopped THEN "stopped"
  ELSE "none"

\* the precondition a rejection of capturePhoto reports
Reported(m) ==
  CASE m = MsgCameraUnavailable -> "unavailable"
    [] IncludesNotReady(m) -> "not ready"
    [] IncludesNoDimensions(m) -> "no dimensions"
    [] IncludesNotPlaying(m) -> "stopped"
    [] IncludesEmpty(m) -> "empty"
    [] m = "ok" -> "none"
    [] OTHER -> "other"

\* C29: capturePhoto rejects with the error of the first precondition that
\* does not hold, in the order no stream held, not ready, no frame
\* dimensions, render surface paused or ended, each with an error of its
\* own; the empty encoding is reported only when all four hold.
C29_FirstViolatedReported ==
  (hook \in {"H1", "H5"} /\ event.name = "capture")
  => /\ FirstViolated # "none" => Reported(event.result) = FirstViolated
     /\ Reported(event.result) = "empty" => FirstViolated = "none"

\* the same for the revision with the check of video.paused and video.ended
FirstViolatedReportedH5 ==
  (hook = "H5" /\ event.name = "capture")
  => /\ FirstViolated # "none" => Reported(event.result) = FirstViolated
     /\ Reported(event.result) = "empty" => FirstViolated = "none"

\* the context is insecure or navigator.mediaDevices.getUserMedia is missing
NoPlatform == ~secure \/ ~supported

\* no getUserMedia request is awaited or was issued by the call that ended,
\* and a requestPermission that failed left the Error state
EndsInErrorUnrequested ==
  /\ AwaitingPlatform = {}
  /\ \A c \in Slots : calls[c].reqs = 0
  /\ live = {}
  /\ event.name = "rp_failed" => event.reqs = 0 /\ InError(state)

\* C30: in an insecure context, or without the platform capture API,
\* requestPermission ends in Error and issues no stream request.
C30_NoRequestWithoutPlatform == NoPlatform => EndsInErrorUnrequested

\* the same for the revision that checks window.isSecureContext first
NoRequestWithoutPlatformH5 ==
  (hook = "H5" /\ NoPlatform) => EndsInErrorUnrequested

\* the same for every revision but part_005 when the capture API is missing
NoRequestWithoutApi ==
  (hook # "H3" /\ ~supported) => EndsInErrorUnrequested

\* the kinds of failure of an acquisition
ErrorKinds == {"insecure", "unsupported", "no device", "denied", "busy",
               "constraints", "timeout"}

\* the kind of the failure that ended requestPermission in this step
FailureKind ==
  IF ~secure THEN "insecure"
  ELSE IF event.cause = "unsupported" THEN "unsupported"
  ELSE IF event.reqs = 2 THEN "constraints"
  ELSE CASE event.cause = "NotFoundError" -> "no device"
         [] event.cause = "NotAllowedError" -> "denied"
         [] event.cause = "NotReadableError" -> "busy"
         [] event.cause = "OverconstrainedError" -> "constraints"
         [] event.cause = "timeout" -> "timeout"
         [] OTHER -> "other"

\* the messages revision h of the hook puts in state.error for kind k
KindMessages(h, k) ==
  CASE k = "insecure" ->
         IF h \in {"H3", "H5"} THEN {ErrorMessage(h, ThrownError(MsgHttps))} ELSE {}
    [] k = "unsupported" ->
         IF h \in {"H1", "H2"}
           THEN {ErrorMessage(h, ThrownError(MsgNotSupportedH1))}
           ELSE {ErrorMessage(h, ThrownError(MsgNoMediaDevices)),
                 ErrorMessage(h, ThrownError(MsgNoGetUserMedia))}
    [] k = "no device" -> {ErrorMessage(h, PlatformError("NotFoundError"))}
    [] k = "denied" -> {ErrorMessage(h, PlatformError("NotAllowedError"))}
    [] k = "busy" -> {ErrorMessage(h, PlatformError("NotReadableError"))}
    [] k = "constraints" -> {ErrorMessage(h, PlatformError("OverconstrainedError"))}
    [] OTHER ->
         IF h \in {"H3", "H5"} THEN {ErrorMessage(h, ThrownError(MsgTimeout))} ELSE {}

\* the failure of this step left a message no other kind of failure gives
OwnMessage ==
  (event.name = "rp_failed" /\ FailureKind \in ErrorKinds)
  => \A k \in ErrorKinds \ {FailureKind} : state.error \notin KindMessages(hook, k)

\* C31: the seven kinds of acquisition failure (insecure context,
\* unsupported platform, no device, permission denied, device busy,
\* constraints unsatisfiable after the fallback, timeout) leave pairwise
\* different messages in state.error.
C31_KindsHaveOwnMessages == OwnMessage

\* the same for the revision of part_006
KindsHaveOwnMessagesH5 == hook = "H5" => OwnMessage

\* a countdown/capture/save pipeline, or the save of an uploaded file, is
\* in flight
CaptureInFlight == capPc # "idle"
UploadInFlight == upPc # "idle"

\* C32: handleCapture starts a pipeline only when the camera is active and
\* no capture is in progress, an upload starts only when none is in
\* progress, isCapturing is set as long as a pipeline is in flight, and so a
\* screen never has two pipelines (live capture or file upload) in flight.
C32_OnePipelineInFlight ==
  [][/\ (~CaptureInFlight /\ CaptureInFlight')
          => (state.isActive /\ ~isCapturing /\ ~UploadInFlight)
     /\ (~UploadInFlight /\ UploadInFlight')
          => (~isCapturing /\ ~CaptureInFlight)
     /\ (CaptureInFlight' \/ UploadInFlight') => isCapturing'
     /\ ~(CaptureInFlight' /\ UploadInFlight')]_vars

\* the camera became active while the save of an uploaded file is in flight,
\* and the one while a countdown runs the camera failed
C32_Witness ==
  /\ screen = "camera" /\ isCapturing
  /\ \/ UploadInFlight /\ state.isActive
     \/ CaptureInFlight /\ comp \in {"K1", "K2"}
          /\ ~state.isActive /\ ~state.isLoading

\* C33: a run of handleCapture or handleFileUpload that set isCapturing
\* ends, after a success or a failure of any step, with isCapturing false
\* and the countdown cleared.
C33_CapturingEnds == isCapturing ~> (~isCapturing /\ countdown = 0)

\* a capture whose save was rejected and an upload whose save was rejected
\* have ended with isCapturing reset
C33_Witness ==
  /\ event.name \in {"save_failed", "upload_failed"}
  /\ ~isCapturing /\ countdown = 0 /\ capPc = "idle" /\ upPc = "idle"

\* a call of switchCamera has not ended
SwitchInProgress == \E c \in Slots : calls[c].kind = "switch"
\* state.facingMode is the facing mode the held stream was requested with
FacingOfHeld == streamRef # 0 => state.facingMode = heldFacing

\* C34: whenever the camera is active and no switch is in progress,
\* state.facingMode is the facing mode requested for the held stream; a
\* switchCamera that succeeded has flipped it to the mode of the stream it
\* acquired, and one that failed does not leave it at the mode of a camera
\* that was never acquired.
C34_FacingModeOfHeldStream ==
  HasFacing
  => /\ (state.isActive /\ ~state.isLoading /\ ~SwitchInProgress) => FacingOfHeld
     /\ event.name = "sw_done" => (streamRef # 0 /\ FacingOfHeld)
     /\ event.name = "sw_failed" => FacingOfHeld

\* C35 the day_number of the inserted entry is the total_photos the same
\* handlePhotoTaken writes to the progress record
DayNumberIsTotalWritten ==
  page.write.done => page.write.row.total_photos = page.dayNumber

EntryInserted == page.pc = "entry" /\ page'.pc = "write"

\* C35 for every accepted capture the day_number stored in the entry equals
\* the total_photos written by the same handlePhotoTaken, and the day numbers
\* of the entries of a challenge are 1, 2, 3, ... without repeats or gaps:
\* every inserted entry has the day number after that of the entry before it
C35_DayNumbersConsecutive ==
  [][/\ DayNumberIsTotalWritten
     /\ EntryInserted => page'.lastDay = page.lastDay + 1]_vars

\* the progress records with current_streak <= total_photos, up to MaxStreak
ConsistentRecords ==
  {r \in {[ZeroProgress EXCEPT !.current_streak = st, !.total_photos = t] :
             st \in 0..MaxStreak, t \in 0..MaxStreak} :
       r.current_streak <= r.total_photos} \cup {NoProgress}

\* the amount the claim gives for a capture computed from the record cp
LightByRule(cp) ==
  IF NewTotal(cp) = 1 THEN 25
  ELSE IF NewStreak(cp) = 1 THEN 15
  ELSE 15 + Min(2 * NewStreak(cp), 20)

LightRule(cp) ==
  /\ cp.current_streak <= cp.total_photos
  /\ TotalLightEarned(cp) = LightByRule(cp)
  /\ TotalLightEarned(cp) \in 15..35
  /\ bonusPoints(cp) = 0 \/ streakBonus(cp) = 0

\* C36 the Light awarded for an accepted capture is between 15 and 35: 25
\* for the first photo, 15 for a later photo with new streak 1, and
\* 15 + min(2 * streak, 20) for a new streak of 2 or more; the two bonuses
\* are never both non-zero, the record held having current_streak <=
\* total_photos; the same amounts for every such record up to MaxStreak
C36_LightAwarded ==
  page.pc = "award" =>
    /\ LightRule(page.currentProgress)
    /\ \A cp \in ConsistentRecords : LightRule(cp)

\* Light is being awarded for a capture that continues a streak
C36_Witness ==
  /\ page.pc = "award"
  /\ NewTotal(page.currentProgress) > 1
  /\ streakBonus(page.currentProgress) > 0

\* handleFileUpload has returned at one of its two checks of the file
FileRejected == event'.name = "file" /\ event'.result \in {"not an image", "too large"}
\* handleFileUpload has called onPhotoTaken
FileHandedOver == upPc = "idle" /\ upPc' = "saving"
\* the onPhotoTaken of handleFileUpload has settled
FileSaveEnds == upPc = "saving" /\ upPc' = "idle"

\* C37 handleFileUpload rejects a file that is not an image or is larger
\* than 10 MB with a failure notification, without calling onPhotoTaken,
\* without closing the screen and without setting isCapturing; only a file
\* that passed both checks is handed to onPhotoTaken, and onClose is called
\* only after onPhotoTaken resolved
C37_FileUploadValidated ==
  [][/\ FileRejected =>
          /\ event'.toast = IF event'.result = "too large" THEN ToastTooLarge
                            ELSE ToastInvalidFile
          /\ ~FileHandedOver
          /\ screen' = screen /\ screen # "closed"
          /\ isCapturing' = isCapturing /\ ~isCapturing
     /\ FileHandedOver =>
          event'.name = "file" /\ event'.result = "accepted" /\ isCapturing'
     /\ event'.name = "upload_saved" => FileSaveEnds /\ screen' = "closed"
     /\ FileSaveEnds /\ screen' # screen => event'.name = "upload_saved"
     /\ event'.name = "upload_failed" =>
          FileSaveEnds /\ screen' = screen /\ event'.toast.title = "Upload Failed"]_vars

\* a file larger than 10 MB was rejected on an open screen
C37_Witness ==
  /\ event.name = "file" /\ event.result = "too large"
  /\ ~isCapturing /\ upPc = "idle" /\ screen # "closed"

====
